---- MODULE Spec2Model ----
(***************************************************************************)
(* Crash Street: the Socket.IO round engine of server.js                   *)
(* (src/unnamed/part_001) and the in-browser mock GameServer               *)
(* (src/unnamed/part_000).  The two are separate programs: each            *)
(* specification below runs one of them and leaves the other's variables   *)
(* as they are.                                                            *)
(*                                                                         *)
(* Node runs every callback (socket handler, timeout, interval) to         *)
(* completion on one event loop, so each callback is one atomic action.    *)
(* Timers are untimed: a pending timeout or a live interval may fire at    *)
(* any step, which over-approximates every 30 ms / 3 s / 5 s schedule.     *)
(* Date.now() feeds only gameId, startTime, elapsed and the history        *)
(* timestamps and is never tested, so Spec lets the clock stand still and  *)
(* SpecClock lets it advance; TimedSpec also makes a timer callback run    *)
(* at a later clock reading than the one it was set at.  The mock server   *)
(* counts the clock in tick periods: each interval callback advances it.   *)
(*                                                                         *)
(* Numbers.  The multiplier and the crash point are JavaScript doubles;    *)
(* they are modelled in fixed point, as integers counting 1/Scale, every   *)
(* product and quotient truncated the way the expression is evaluated,     *)
(* left to right.  Math.random() is modelled as k / RDen, k in 0..RDen-1.  *)
(***************************************************************************)
EXTENDS Integers, Sequences, FiniteSets

\* ------------------------------------------------------------------ bounds
\* fixed-point resolution of a multiplier: 1.00x is Scale
Scale == 10000
\* resolution of a random draw: r = k / RDen
RDen == 10000
\* number of socket ids that may ever connect
NumSockets == 2
\* number of startGame() executions explored
MaxRounds == 2
\* largest clock reading (Date.now(), counted from the boot of the server)
MaxTime == 2
\* number of rounds the history specification runs: one more than fills the
\* history and drops its oldest entry
HistoryRounds == 52
\* largest balance of the mock server's user explored
MaxBalance == 6000
\* number of successful placeBet calls of the mock server explored
MaxBets == 2
\* number of games of the mock server explored
MockRounds == 1

\* ------------------------------------------------------- program constants
\* CONFIG.tickRate, ms between ticks
tickRate == 30
\* CONFIG.growthRate = 0.15, in hundredths
growthRatePct == 15
\* 0.99, the numerator of the crash point formula, in hundredths
houseFactorPct == 99
\* Math.min(crashPoint, 1000)
crashCap == 1000
\* amount < 10 is refused
minBet == 10
\* history.length > 50 drops the oldest entry
historyCap == 50
\* the balance login() gives
startBalance == 5000
\* the mock server's placeBet refuses amount < 10
mockMinBet == 10
\* the mock server's history.length > 50
mockHistoryCap == 50

\* ------------------------------------------------------------------ inputs
Sockets == 1..NumSockets
\* amounts a client sends: parseInt of a text field; 9 stands for every
\* amount that is refused (one below the minimum, or falsy: undefined, NaN,
\* 0), 1000 for every amount that is accepted
Amounts == {9, 1000}
\* the names a client sends; "" stands for every falsy username
Usernames == {""}
\* the draws of Math.random() explored by the full specification:
\* crash points 1.00x (the first tick crashes) and 1.0102x (the third does)
Draws == {0, 200}
\* every draw, explored where only the crash point matters
AllDraws == 0..(RDen - 1)
\* the draws explored where the length of a round matters: crash points
\* 1.00x, 1.98x and the cap
TickDraws == {0, RDen \div 2, RDen - 1}
\* the draw of each of the many rounds of the history specification: crash
\* points 1.00x, 1.0102x, 1.0312x in turn, so that neighbouring history
\* entries differ; the last rounds take either draw of Draws
HistoryDraws(round) ==
    IF round + 2 > HistoryRounds THEN Draws ELSE {200 * (round % 3)}
\* the amounts passed to the mock server's placeBet: below the minimum, a
\* stake, more than any balance
MockAmounts == {9, 1000, 6000}
\* the amounts passed to redeem; nothing keeps a caller from a negative one
RedeemAmounts == {0 - 1000, 1000, 6000}
\* the names passed to login; "" stands for every falsy name
MockUsernames == {"", "ann"}
\* the mode passed to the mock server's startGame
ModeIds == {"classic"}
\* the draw behind the referral code
RefDraws == {0}

Broadcast == 0
NoTimer == 0

VARIABLES
    gameState,      \* the gameState object
    activeBets,     \* the activeBets Map, in insertion order
    gameLoop,       \* the handle held by the variable gameLoop
    intervals,      \* the interval timers that are live in the event loop
    bootTimer,      \* the setTimeout of server.listen is pending
    restartTimers,  \* number of pending setTimeout(startGame, 5000) of crash()
    conn,           \* each socket id: "fresh", "connected" or "closed"
    now,            \* the reading of Date.now()
    emitted,        \* the event the last callback emitted
    rounds,         \* history variable: number of startGame() executions
    placedIn,       \* history variable: the round each ledger entry was set in
    settled,        \* history variable: GAME_CRASHED results naming the entry
    forfeited,      \* history variable: the stake of the live bet a disconnect
                    \* deleted in the current round, per socket (0: none)
    state,          \* mock server: this._state
    loopInterval,   \* mock server: the handle held by this._loopInterval
    liveLoops,      \* mock server: its interval timers that are live
    returned,       \* mock server: what the last public call returned
    sent,           \* mock server: the events the last call passed to _emit
    starts,         \* history variable: mock startGame() calls that started
    placed          \* history variable: mock placeBet() calls that succeeded

serverVars == <<gameState, activeBets, gameLoop, intervals, bootTimer,
                restartTimers, conn, emitted, rounds, placedIn, settled,
                forfeited>>
mockVars == <<state, loopInterval, liveLoops, returned, sent, starts, placed>>
vars == <<serverVars, now, mockVars>>

\* --------------------------------------------------------------- helpers
Min(a, b) == IF a < b THEN a ELSE b

RECURSIVE ToString(_)
\* Number.prototype.toString(): the decimal digits of a non-negative integer
ToString(n) == IF n < 10 THEN <<n>> ELSE Append(ToString(n \div 10), n % 10)

\* Map.prototype.has / get / set / delete on an insertion-ordered entry list
MapHas(m, k) == \E i \in 1..Len(m) : m[i].key = k
MapGet(m, k) == m[CHOOSE i \in 1..Len(m) : m[i].key = k].value
MapSet(m, k, v) ==
    IF MapHas(m, k)
    THEN [i \in 1..Len(m) |-> IF m[i].key = k THEN [key |-> k, value |-> v] ELSE m[i]]
    ELSE Append(m, [key |-> k, value |-> v])
MapDelete(m, k) == SelectSeq(m, LAMBDA e : e.key # k)

NoEvent == [event |-> "none", to |-> Broadcast]
Event(e, t, d) == [event |-> e, to |-> t, data |-> d]

\* ------------------------------------------------------- pure computations
\* mutant: the crash point without the Math.min clamp
CrashPointUncapped(k) ==
    LET raw == (((houseFactorPct * Scale) \div 100) * RDen) \div (RDen - k)
    IN  IF raw < Scale THEN Scale ELSE raw

\* 0.99 / (1 - r), then the two clamps of startGame()
CrashPointOf(k) ==
    LET raw == (((houseFactorPct * Scale) \div 100) * RDen) \div (RDen - k)
        low == IF raw < Scale THEN Scale ELSE raw
    IN  Min(low, crashCap * Scale)

\* mutant: tickRate / 1000 taken as an integer quotient, which is 0
GrowStalled(m) == m + ((m * growthRatePct) \div 100) * (tickRate \div 1000)

\* multiplier += multiplier * growthRate * (tickRate / 1000)
Grow(m) == m + (((m * growthRatePct) \div 100) * tickRate) \div 1000

\* mutant: Math.ceil in place of Math.floor
WinAmountCeil(amount, m) == ((amount * m) + (Scale - 1)) \div Scale

\* Math.floor(bet.amount * gameState.multiplier)
WinAmount(amount, m) == (amount * m) \div Scale

\* ------------------------------------------------- mock server: its state
\* null, for this._state.user; a user that is set is a one-element sequence
NoUser == <<>>
\* what a public call returned: { error }, { success }, undefined, or an
\* uncaught TypeError; NoReturn after the constructor and after a timer callback
Ret(kind, text) == [kind |-> kind, text |-> text]
NoReturn == Ret("none", "")
Undefined == Ret("undefined", "")
Err(text) == Ret("error", text)
Success == Ret("success", "")
Thrown == Ret("throw", "TypeError")

\* the constructor of GameServer, with nothing saved in localStorage
MockInit ==
    /\ state = [user |-> NoUser,
                game |-> [id |-> <<>>, running |-> FALSE, multiplier |-> Scale,
                          crashPoint |-> 0, startTime |-> 0, crashed |-> FALSE,
                          history |-> <<>>],
                bets |-> <<>>]
    /\ loopInterval = NoTimer
    /\ liveLoops = {}
    /\ returned = NoReturn
    /\ sent = <<>>
    /\ starts = 0
    /\ placed = 0

\* ------------------------------------------------------------------- Init
Init ==
    /\ gameState = [running |-> FALSE, multiplier |-> Scale, crashPoint |-> 0,
                    startTime |-> 0, crashed |-> FALSE, gameId |-> <<>>,
                    history |-> <<>>]
    /\ activeBets = <<>>
    /\ gameLoop = NoTimer
    /\ intervals = {}
    /\ bootTimer = TRUE
    /\ restartTimers = 0
    /\ conn = [s \in Sockets |-> "fresh"]
    /\ now = 0
    /\ emitted = NoEvent
    /\ rounds = 0
    /\ placedIn = [s \in Sockets |-> 0]
    /\ settled = [s \in Sockets |-> 0]
    /\ forfeited = [s \in Sockets |-> 0]
    /\ MockInit

\* ------------------------------------------------------------ startGame()
\* the assignments of startGame() with Math.random() = k / RDen
StartGame(k) ==
    /\ gameState' = [gameState EXCEPT !.running = TRUE,
                                      !.multiplier = Scale,
                                      !.crashed = FALSE,
                                      !.gameId = ToString(now),
                                      !.startTime = now,
                                      !.crashPoint = CrashPointOf(k)]
    /\ activeBets' = <<>>
    /\ placedIn' = [s \in Sockets |-> 0]
    /\ settled' = [s \in Sockets |-> 0]
    /\ forfeited' = [s \in Sockets |-> 0]
    /\ rounds' = rounds + 1
    /\ emitted' = Event("GAME_START", Broadcast, [id |-> ToString(now)])
    /\ gameLoop' = rounds + 1
    /\ intervals' = intervals \cup {rounds + 1}

\* the frame of a callback that touches neither the round nor the timers
RoundUnchanged == UNCHANGED <<gameState, gameLoop, intervals, bootTimer,
                              restartTimers, rounds>>
LedgerUnchanged == UNCHANGED <<activeBets, placedIn, settled, forfeited>>
\* the frame of every callback of server.js: the mock server is another program
MockUnchanged == UNCHANGED mockVars

\* ---------------------------------------------------- io.on('connection')
\* socket ids are fresh and opaque: the k-th connection is given id k
Connect(s) ==
    /\ conn[s] = "fresh"
    /\ \A t \in Sockets : t < s => conn[t] # "fresh"
    /\ conn' = [conn EXCEPT ![s] = "connected"]
    /\ emitted' = Event("INITIAL_STATE", s,
                        [running |-> gameState.running,
                         isCrashed |-> gameState.crashed,
                         multiplier |-> gameState.multiplier,
                         history |-> gameState.history])
    /\ RoundUnchanged /\ LedgerUnchanged /\ UNCHANGED now /\ MockUnchanged

\* -------------------------------------------------- socket.on('START_GAME')
\* `draws` is what Math.random() may return
StartGameRequest(s, draws) ==
    /\ conn[s] = "connected"
    /\ IF ~gameState.running
       THEN /\ \E k \in draws : StartGame(k)
            /\ UNCHANGED <<bootTimer, restartTimers>>
       ELSE /\ emitted' = NoEvent
            /\ RoundUnchanged /\ LedgerUnchanged
    /\ UNCHANGED <<conn, now>> /\ MockUnchanged

\* mutant: PLACE_BET without the activeBets.has(socket.id) check
PlaceBetNoDuplicateCheck(s, amount, username) ==
    /\ conn[s] = "connected"
    /\ IF ~gameState.running \/ gameState.crashed
       THEN /\ emitted' = Event("ERROR", s, "Cannot place bet at this time")
            /\ LedgerUnchanged
       ELSE IF amount = 0 \/ amount < minBet
       THEN /\ emitted' = Event("ERROR", s, "Minimum bet is 10")
            /\ LedgerUnchanged
       ELSE /\ activeBets' = MapSet(activeBets, s,
                                [amount |-> amount, cashedOut |-> FALSE, profit |-> 0,
                                 username |-> IF username = "" THEN "Player" ELSE username])
            /\ placedIn' = [placedIn EXCEPT ![s] = rounds]
            /\ settled' = [settled EXCEPT ![s] = 0]
            /\ emitted' = Event("BET_CONFIRMED", s, [amount |-> amount])
            /\ UNCHANGED forfeited
    /\ RoundUnchanged /\ UNCHANGED <<conn, now>> /\ MockUnchanged

\* mutant: PLACE_BET without the running / crashed check
PlaceBetNoPhaseCheck(s, amount, username) ==
    /\ conn[s] = "connected"
    /\ IF MapHas(activeBets, s)
       THEN /\ emitted' = Event("ERROR", s, "You already have an active bet")
            /\ LedgerUnchanged
       ELSE IF amount = 0 \/ amount < minBet
       THEN /\ emitted' = Event("ERROR", s, "Minimum bet is 10")
            /\ LedgerUnchanged
       ELSE /\ activeBets' = MapSet(activeBets, s,
                                [amount |-> amount, cashedOut |-> FALSE, profit |-> 0,
                                 username |-> IF username = "" THEN "Player" ELSE username])
            /\ placedIn' = [placedIn EXCEPT ![s] = rounds]
            /\ settled' = [settled EXCEPT ![s] = 0]
            /\ emitted' = Event("BET_CONFIRMED", s, [amount |-> amount])
            /\ UNCHANGED forfeited
    /\ RoundUnchanged /\ UNCHANGED <<conn, now>> /\ MockUnchanged

\* --------------------------------------------------- socket.on('PLACE_BET')
PlaceBet(s, amount, username) ==
    /\ conn[s] = "connected"
    /\ IF ~gameState.running \/ gameState.crashed
       THEN /\ emitted' = Event("ERROR", s, "Cannot place bet at this time")
            /\ LedgerUnchanged
       ELSE IF MapHas(activeBets, s)
       THEN /\ emitted' = Event("ERROR", s, "You already have an active bet")
            /\ LedgerUnchanged
       ELSE IF amount = 0 \/ amount < minBet
       THEN /\ emitted' = Event("ERROR", s, "Minimum bet is 10")
            /\ LedgerUnchanged
       ELSE /\ activeBets' = MapSet(activeBets, s,
                                [amount |-> amount, cashedOut |-> FALSE, profit |-> 0,
                                 username |-> IF username = "" THEN "Player" ELSE username])
            /\ placedIn' = [placedIn EXCEPT ![s] = rounds]
            /\ settled' = [settled EXCEPT ![s] = 0]
            /\ emitted' = Event("BET_CONFIRMED", s, [amount |-> amount])
            /\ UNCHANGED forfeited
    /\ RoundUnchanged /\ UNCHANGED <<conn, now>> /\ MockUnchanged

\* the success branch of CASH_OUT
CashOutPays(s) ==
    LET bet == MapGet(activeBets, s)
        winAmount == WinAmount(bet.amount, gameState.multiplier)
        profit == winAmount - bet.amount
    IN  /\ activeBets' = MapSet(activeBets, s,
                            [bet EXCEPT !.cashedOut = TRUE, !.profit = profit])
        /\ emitted' = Event("CASHOUT_SUCCESS", s,
                            [multiplier |-> gameState.multiplier,
                             winAmount |-> winAmount, profit |-> profit])
        /\ UNCHANGED <<placedIn, settled, forfeited>>

\* mutant: CASH_OUT without the running / crashed check
CashOutNoPhaseCheck(s) ==
    /\ conn[s] = "connected"
    /\ IF ~MapHas(activeBets, s) \/ MapGet(activeBets, s).cashedOut
       THEN /\ emitted' = Event("ERROR", s, "No active bet to cash out")
            /\ LedgerUnchanged
       ELSE CashOutPays(s)
    /\ RoundUnchanged /\ UNCHANGED <<conn, now>> /\ MockUnchanged

\* mutant: CASH_OUT with the cashedOut test inverted
CashOutInvertedFlag(s) ==
    /\ conn[s] = "connected"
    /\ IF ~gameState.running \/ gameState.crashed
       THEN /\ emitted' = Event("ERROR", s, "Game not active")
            /\ LedgerUnchanged
       ELSE IF ~MapHas(activeBets, s) \/ ~MapGet(activeBets, s).cashedOut
       THEN /\ emitted' = Event("ERROR", s, "No active bet to cash out")
            /\ LedgerUnchanged
       ELSE CashOutPays(s)
    /\ RoundUnchanged /\ UNCHANGED <<conn, now>> /\ MockUnchanged

\* ---------------------------------------------------- socket.on('CASH_OUT')
CashOut(s) ==
    /\ conn[s] = "connected"
    /\ IF ~gameState.running \/ gameState.crashed
       THEN /\ emitted' = Event("ERROR", s, "Game not active")
            /\ LedgerUnchanged
       ELSE IF ~MapHas(activeBets, s) \/ MapGet(activeBets, s).cashedOut
       THEN /\ emitted' = Event("ERROR", s, "No active bet to cash out")
            /\ LedgerUnchanged
       ELSE CashOutPays(s)
    /\ RoundUnchanged /\ UNCHANGED <<conn, now>> /\ MockUnchanged

\* mutant: a disconnect that empties the ledger also stops the round
DisconnectStopsRound(s) ==
    /\ conn[s] = "connected"
    /\ conn' = [conn EXCEPT ![s] = "closed"]
    /\ emitted' = NoEvent
    /\ activeBets' = MapDelete(activeBets, s)
    /\ placedIn' = [placedIn EXCEPT ![s] = 0]
    /\ settled' = [settled EXCEPT ![s] = 0]
    /\ forfeited' = [forfeited EXCEPT ![s] =
                        IF MapHas(activeBets, s) /\ ~MapGet(activeBets, s).cashedOut
                        THEN MapGet(activeBets, s).amount ELSE 0]
    /\ gameState' = IF MapDelete(activeBets, s) = <<>>
                    THEN [gameState EXCEPT !.running = FALSE]
                    ELSE gameState
    /\ UNCHANGED <<gameLoop, intervals, bootTimer, restartTimers, rounds>>
    /\ UNCHANGED now /\ MockUnchanged

\* mutant: disconnect without activeBets.delete(socket.id)
DisconnectKeepsBet(s) ==
    /\ conn[s] = "connected"
    /\ conn' = [conn EXCEPT ![s] = "closed"]
    /\ emitted' = NoEvent
    /\ forfeited' = [forfeited EXCEPT ![s] =
                        IF MapHas(activeBets, s) /\ ~MapGet(activeBets, s).cashedOut
                        THEN MapGet(activeBets, s).amount ELSE 0]
    /\ UNCHANGED <<activeBets, placedIn, settled>>
    /\ RoundUnchanged /\ UNCHANGED now /\ MockUnchanged

\* -------------------------------------------------- socket.on('disconnect')
Disconnect(s) ==
    /\ conn[s] = "connected"
    /\ conn' = [conn EXCEPT ![s] = "closed"]
    /\ emitted' = NoEvent
    /\ activeBets' = MapDelete(activeBets, s)
    /\ placedIn' = [placedIn EXCEPT ![s] = 0]
    /\ settled' = [settled EXCEPT ![s] = 0]
    /\ forfeited' = [forfeited EXCEPT ![s] =
                        IF MapHas(activeBets, s) /\ ~MapGet(activeBets, s).cashedOut
                        THEN MapGet(activeBets, s).amount ELSE 0]
    /\ RoundUnchanged /\ UNCHANGED now /\ MockUnchanged

\* mutant: a full history drops its newest entry (shift in place of pop)
AddToHistoryDropsNewest(history, crashPoint) ==
    LET h == <<[crashPoint |-> crashPoint, timestamp |-> now]>> \o history
    IN  IF Len(h) > historyCap THEN SubSeq(h, 2, Len(h)) ELSE h

\* ------------------------------------------------------------ addToHistory
AddToHistory(history, crashPoint) ==
    LET h == <<[crashPoint |-> crashPoint, timestamp |-> now]>> \o history
    IN  IF Len(h) > historyCap THEN SubSeq(h, 1, Len(h) - 1) ELSE h

\* mutant: the results array reports every bet as lost
ResultsAllLost(bets) ==
    [i \in 1..Len(bets) |->
        LET bet == bets[i].value
        IN  [socketId |-> bets[i].key, username |-> bet.username,
             amount |-> bet.amount, result |-> "lost", profit |-> 0 - bet.amount]]

\* the results array crash() builds from the ledger
Results(bets) ==
    [i \in 1..Len(bets) |->
        LET bet == bets[i].value
        IN  IF ~bet.cashedOut
            THEN [socketId |-> bets[i].key, username |-> bet.username,
                  amount |-> bet.amount, result |-> "lost", profit |-> 0 - bet.amount]
            ELSE [socketId |-> bets[i].key, username |-> bet.username,
                  amount |-> bet.amount, result |-> "won", profit |-> bet.profit]]

\* mutant: crash() without setTimeout(startGame, 5000)
CrashNoRestart(g) ==
    /\ intervals' = intervals \ {gameLoop}
    /\ gameState' = [g EXCEPT !.running = FALSE, !.crashed = TRUE,
                              !.history = AddToHistory(g.history, g.crashPoint)]
    /\ settled' = [s \in Sockets |->
                     IF MapHas(activeBets, s) THEN settled[s] + 1 ELSE settled[s]]
    /\ emitted' = Event("GAME_CRASHED", Broadcast,
                        [crashPoint |-> g.crashPoint, results |-> Results(activeBets)])
    /\ UNCHANGED <<activeBets, placedIn, forfeited, gameLoop, bootTimer, rounds,
                   restartTimers>>

\* ----------------------------------------------------------------- crash()
\* crash() applied to the round state `g` that tick() has just advanced
Crash(g) ==
    /\ intervals' = intervals \ {gameLoop}
    /\ gameState' = [g EXCEPT !.running = FALSE, !.crashed = TRUE,
                              !.history = AddToHistory(g.history, g.crashPoint)]
    /\ settled' = [s \in Sockets |->
                     IF MapHas(activeBets, s) THEN settled[s] + 1 ELSE settled[s]]
    /\ emitted' = Event("GAME_CRASHED", Broadcast,
                        [crashPoint |-> g.crashPoint, results |-> Results(activeBets)])
    /\ restartTimers' = restartTimers + 1
    /\ UNCHANGED <<activeBets, placedIn, forfeited, gameLoop, bootTimer, rounds>>

\* mutant: tick() compares with the crash point before it grows the multiplier
TickChecksBeforeGrowing ==
    IF ~gameState.running
    THEN /\ emitted' = NoEvent
         /\ RoundUnchanged /\ LedgerUnchanged
    ELSE IF gameState.multiplier >= gameState.crashPoint
         THEN Crash(gameState)
         ELSE LET g == [gameState EXCEPT !.multiplier = Grow(gameState.multiplier)]
              IN  /\ gameState' = g
                  /\ emitted' = Event("TICK", Broadcast,
                                      [multiplier |-> g.multiplier,
                                       elapsed |-> now - gameState.startTime])
                  /\ UNCHANGED <<gameLoop, intervals, bootTimer, restartTimers, rounds>>
                  /\ LedgerUnchanged

\* mutant: tick() emits TICK before it compares with the crash point
TickEmitsOnCrash ==
    IF ~gameState.running
    THEN /\ emitted' = NoEvent
         /\ RoundUnchanged /\ LedgerUnchanged
    ELSE LET g == [gameState EXCEPT !.multiplier = Grow(gameState.multiplier)]
             tickEvent == Event("TICK", Broadcast,
                                [multiplier |-> g.multiplier,
                                 elapsed |-> now - gameState.startTime])
         IN  IF g.multiplier >= g.crashPoint
             THEN /\ intervals' = intervals \ {gameLoop}
                  /\ gameState' = [g EXCEPT !.running = FALSE, !.crashed = TRUE,
                                      !.history = AddToHistory(g.history, g.crashPoint)]
                  /\ settled' = [s \in Sockets |->
                                   IF MapHas(activeBets, s) THEN settled[s] + 1
                                   ELSE settled[s]]
                  /\ emitted' = tickEvent
                  /\ restartTimers' = restartTimers + 1
                  /\ UNCHANGED <<activeBets, placedIn, forfeited, gameLoop,
                                 bootTimer, rounds>>
             ELSE /\ gameState' = g
                  /\ emitted' = tickEvent
                  /\ UNCHANGED <<gameLoop, intervals, bootTimer, restartTimers, rounds>>
                  /\ LedgerUnchanged

\* ------------------------------------------------------------------ tick()
Tick ==
    IF ~gameState.running
    THEN /\ emitted' = NoEvent
         /\ RoundUnchanged /\ LedgerUnchanged
    ELSE LET g == [gameState EXCEPT !.multiplier = Grow(gameState.multiplier)]
         IN  IF g.multiplier >= g.crashPoint
             THEN Crash(g)
             ELSE /\ gameState' = g
                  /\ emitted' = Event("TICK", Broadcast,
                                      [multiplier |-> g.multiplier,
                                       elapsed |-> now - gameState.startTime])
                  /\ UNCHANGED <<gameLoop, intervals, bootTimer, restartTimers, rounds>>
                  /\ LedgerUnchanged

\* a live interval timer fires and calls tick()
IntervalFire(i) ==
    /\ i \in intervals
    /\ Tick
    /\ UNCHANGED <<conn, now>> /\ MockUnchanged

\* ------------------------------------------- setTimeout callbacks: startGame
\* the timeout set by the server.listen callback
BootTimerFire(k) ==
    /\ bootTimer
    /\ bootTimer' = FALSE
    /\ StartGame(k)
    /\ UNCHANGED <<restartTimers, conn, now>> /\ MockUnchanged

\* a timeout set by crash()
RestartTimerFire(k) ==
    /\ restartTimers > 0
    /\ restartTimers' = restartTimers - 1
    /\ StartGame(k)
    /\ UNCHANGED <<bootTimer, conn, now>> /\ MockUnchanged

\* ------------------------------------------------------------------- clock
AdvanceClock ==
    /\ now < MaxTime
    /\ now' = now + 1
    /\ emitted' = NoEvent
    /\ RoundUnchanged /\ LedgerUnchanged /\ UNCHANGED conn /\ MockUnchanged

\* ============================================================ mock server
\* the frame of every call of the mock server: server.js is another program
ServerUnchanged == UNCHANGED serverVars
\* the timers of the mock server are left alone
LoopUnchanged == UNCHANGED <<loopInterval, liveLoops, starts>>

\* ------------------------------------------------------------------- login
\* Math.random() = k / RDen picks the referral code
MockLogin(username, k) ==
    /\ IF username = ""
       THEN /\ returned' = Err("Username required")
            /\ sent' = <<>>
            /\ UNCHANGED state
       ELSE LET user == [username |-> username, balance |-> startBalance,
                         referralCode |-> 1000 + ((k * 9000) \div RDen),
                         totalProfit |-> 0]
            IN  /\ state' = [state EXCEPT !.user = <<user>>]
                /\ sent' = <<[event |-> "USER_UPDATE", data |-> <<user>>]>>
                /\ returned' = Success
    /\ LoopUnchanged /\ UNCHANGED <<now, placed>> /\ ServerUnchanged

\* ------------------------------------------------------------------ logout
MockLogout ==
    /\ state' = [state EXCEPT !.user = NoUser]
    /\ sent' = <<[event |-> "USER_UPDATE", data |-> NoUser]>>
    /\ returned' = Undefined
    /\ LoopUnchanged /\ UNCHANGED <<now, placed>> /\ ServerUnchanged

\* mutant: redeem without the amount > balance check
MockRedeemUnchecked(amount) ==
    /\ IF state.user = NoUser
       THEN /\ returned' = Err("Not logged in")
            /\ sent' = <<>>
            /\ UNCHANGED state
       ELSE LET user == [state.user[1] EXCEPT !.balance = @ - amount]
            IN  /\ user.balance <= MaxBalance
                /\ state' = [state EXCEPT !.user = <<user>>]
                /\ sent' = <<[event |-> "USER_UPDATE", data |-> <<user>>]>>
                /\ returned' = Ret("success", "Redeemed")
    /\ LoopUnchanged /\ UNCHANGED <<now, placed>> /\ ServerUnchanged

\* ------------------------------------------------------------------ redeem
MockRedeem(amount) ==
    /\ IF state.user = NoUser
       THEN /\ returned' = Err("Not logged in")
            /\ sent' = <<>>
            /\ UNCHANGED state
       ELSE IF amount > state.user[1].balance
       THEN /\ returned' = Err("Insufficient funds")
            /\ sent' = <<>>
            /\ UNCHANGED state
       ELSE LET user == [state.user[1] EXCEPT !.balance = @ - amount]
            IN  /\ user.balance <= MaxBalance
                /\ state' = [state EXCEPT !.user = <<user>>]
                /\ sent' = <<[event |-> "USER_UPDATE", data |-> <<user>>]>>
                /\ returned' = Ret("success", "Redeemed")
    /\ LoopUnchanged /\ UNCHANGED <<now, placed>> /\ ServerUnchanged

\* --------------------------------------------------------------- startGame
MockStartGame(modeId, k) ==
    /\ IF state.game.running
       THEN /\ sent' = <<>>
            /\ UNCHANGED state
            /\ LoopUnchanged
       ELSE /\ state' = [state EXCEPT !.game =
                            [@ EXCEPT !.running = TRUE,
                                      !.multiplier = Scale,
                                      !.id = ToString(now),
                                      !.startTime = now,
                                      !.crashed = FALSE,
                                      !.crashPoint = CrashPointOf(k)]]
            /\ sent' = <<[event |-> "GAME_START",
                          data |-> [id |-> ToString(now), modeId |-> modeId]]>>
            /\ loopInterval' = starts + 1
            /\ liveLoops' = liveLoops \cup {starts + 1}
            /\ starts' = starts + 1
    /\ returned' = Undefined
    /\ UNCHANGED <<now, placed>> /\ ServerUnchanged

\* mutant: placeBet debits the balance before it checks the minimum
MockPlaceBetDebitsFirst(amount) ==
    /\ IF state.user = NoUser
       THEN /\ returned' = Err("Login required")
            /\ sent' = <<>>
            /\ UNCHANGED <<state, placed>>
       ELSE IF amount > state.user[1].balance
       THEN /\ returned' = Err("Insufficient funds")
            /\ sent' = <<>>
            /\ UNCHANGED <<state, placed>>
       ELSE IF amount < mockMinBet
       THEN /\ returned' = Err("Min bet 10")
            /\ sent' = <<>>
            /\ state' = [state EXCEPT !.user[1].balance = @ - amount]
            /\ UNCHANGED placed
       ELSE LET user == [state.user[1] EXCEPT !.balance = @ - amount]
            IN  /\ state' = [state EXCEPT
                                !.user = <<user>>,
                                !.bets = MapSet(state.bets, state.game.id,
                                                [amount |-> amount, cashedOut |-> FALSE,
                                                 profit |-> 0])]
                /\ sent' = <<[event |-> "USER_UPDATE", data |-> <<user>>],
                             [event |-> "BET_PLACED", data |-> [amount |-> amount]]>>
                /\ returned' = Success
                /\ placed < MaxBets
                /\ placed' = placed + 1
    /\ LoopUnchanged /\ UNCHANGED now /\ ServerUnchanged

\* ---------------------------------------------------------------- placeBet
\* the first if of placeBet has an empty body: the phase is not checked
MockPlaceBet(amount) ==
    /\ IF state.user = NoUser
       THEN /\ returned' = Err("Login required")
            /\ sent' = <<>>
            /\ UNCHANGED <<state, placed>>
       ELSE IF amount > state.user[1].balance
       THEN /\ returned' = Err("Insufficient funds")
            /\ sent' = <<>>
            /\ UNCHANGED <<state, placed>>
       ELSE IF amount < mockMinBet
       THEN /\ returned' = Err("Min bet 10")
            /\ sent' = <<>>
            /\ UNCHANGED <<state, placed>>
       ELSE LET user == [state.user[1] EXCEPT !.balance = @ - amount]
            IN  /\ state' = [state EXCEPT
                                !.user = <<user>>,
                                !.bets = MapSet(state.bets, state.game.id,
                                                [amount |-> amount, cashedOut |-> FALSE,
                                                 profit |-> 0])]
                /\ sent' = <<[event |-> "USER_UPDATE", data |-> <<user>>],
                             [event |-> "BET_PLACED", data |-> [amount |-> amount]]>>
                /\ returned' = Success
                /\ placed < MaxBets
                /\ placed' = placed + 1
    /\ LoopUnchanged /\ UNCHANGED now /\ ServerUnchanged

\* ----------------------------------------------------------------- cashOut
\* with no user logged in, the bet is marked before this._state.user.balance
\* throws
MockCashOut ==
    /\ IF ~state.game.running
       THEN /\ returned' = Err("Game not running")
            /\ sent' = <<>>
            /\ UNCHANGED state
       ELSE IF ~MapHas(state.bets, state.game.id)
               \/ MapGet(state.bets, state.game.id).cashedOut
       THEN /\ returned' = Err("No active bet")
            /\ sent' = <<>>
            /\ UNCHANGED state
       ELSE LET bet == MapGet(state.bets, state.game.id)
                currentMult == state.game.multiplier
                winAmount == WinAmount(bet.amount, currentMult)
                profit == winAmount - bet.amount
                bets == MapSet(state.bets, state.game.id,
                               [bet EXCEPT !.cashedOut = TRUE, !.profit = profit])
            IN  IF state.user = NoUser
                THEN /\ state' = [state EXCEPT !.bets = bets]
                     /\ sent' = <<>>
                     /\ returned' = Thrown
                ELSE LET user == [state.user[1] EXCEPT
                                    !.balance = @ + winAmount,
                                    !.totalProfit = @ + profit]
                     IN  /\ user.balance <= MaxBalance
                         /\ state' = [state EXCEPT !.bets = bets, !.user = <<user>>]
                         /\ sent' = <<[event |-> "CASHOUT_SUCCESS",
                                       data |-> [multiplier |-> currentMult,
                                                 winAmount |-> winAmount,
                                                 profit |-> profit]],
                                      [event |-> "USER_UPDATE", data |-> <<user>>]>>
                         /\ returned' = Success
    /\ LoopUnchanged /\ UNCHANGED <<now, placed>> /\ ServerUnchanged

\* ----------------------------------------------------------- _addToHistory
MockAddToHistory(history, mult, profit, status) ==
    LET h == <<[mult |-> mult, profit |-> profit, status |-> status]>> \o history
    IN  IF Len(h) > mockHistoryCap THEN SubSeq(h, 1, Len(h) - 1) ELSE h

\* ------------------------------------------------------------------ _crash
\* _crash() applied to the game `g` that _gameLoop() has just advanced; with
\* a lost bet and no user logged in, this._state.user.totalProfit throws
\* after the flags are set
MockCrash(g) ==
    LET stopped == [g EXCEPT !.running = FALSE, !.crashed = TRUE]
        finalCrash == g.crashPoint
        hasBet == MapHas(state.bets, g.id)
        bet == MapGet(state.bets, g.id)
        crashedEvent == [event |-> "GAME_CRASHED", data |-> [crashPoint |-> finalCrash]]
    IN  /\ liveLoops' = liveLoops \ {loopInterval}
        /\ UNCHANGED <<loopInterval, starts>>
        /\ IF hasBet /\ ~bet.cashedOut
           THEN IF state.user = NoUser
                THEN /\ state' = [state EXCEPT !.game = stopped]
                     /\ sent' = <<>>
                ELSE LET user == [state.user[1] EXCEPT !.totalProfit = @ - bet.amount]
                         history == MockAddToHistory(g.history, finalCrash,
                                                     0 - bet.amount, "lost")
                     IN  /\ state' = [state EXCEPT
                                         !.game = [stopped EXCEPT !.history = history],
                                         !.user = <<user>>]
                         /\ sent' = <<[event |-> "BET_LOST",
                                       data |-> [amount |-> bet.amount]],
                                      [event |-> "HISTORY_UPDATE", data |-> history],
                                      crashedEvent,
                                      [event |-> "USER_UPDATE", data |-> <<user>>]>>
           ELSE LET history == IF hasBet
                               THEN MockAddToHistory(g.history, finalCrash,
                                                     bet.profit, "won")
                               ELSE MockAddToHistory(g.history, finalCrash, 0, "none")
                IN  /\ state' = [state EXCEPT
                                    !.game = [stopped EXCEPT !.history = history]]
                    /\ sent' = <<[event |-> "HISTORY_UPDATE", data |-> history],
                                 crashedEvent,
                                 [event |-> "USER_UPDATE", data |-> state.user]>>

\* --------------------------------------------------------------- _gameLoop
\* the interval callback; it runs one tick period after the start or the
\* previous callback, so the clock it reads has advanced
MockGameLoop(i) ==
    /\ i \in liveLoops
    /\ now' = now + 1
    /\ returned' = NoReturn
    /\ IF ~state.game.running
       THEN /\ sent' = <<>>
            /\ UNCHANGED state
            /\ LoopUnchanged
       ELSE LET g == [state.game EXCEPT !.multiplier = Grow(state.game.multiplier)]
            IN  IF g.multiplier >= g.crashPoint
                THEN MockCrash(g)
                ELSE /\ state' = [state EXCEPT !.game = g]
                     /\ sent' = <<[event |-> "TICK",
                                   data |-> [multiplier |-> g.multiplier,
                                             elapsed |-> now' - g.startTime]]>>
                     /\ LoopUnchanged
    /\ UNCHANGED placed /\ ServerUnchanged

\* ------------------------------------------------------------------- Next
\* the exploration stops starting rounds after MaxRounds of them
MayStart == rounds < MaxRounds

\* the program with the clock standing still: every Date.now() reads the same
Next ==
    \/ \E s \in Sockets : Connect(s)
    \/ \E s \in Sockets : (MayStart \/ gameState.running) /\ StartGameRequest(s, Draws)
    \/ \E s \in Sockets, a \in Amounts, u \in Usernames : PlaceBet(s, a, u)
    \/ \E s \in Sockets : CashOut(s)
    \/ \E s \in Sockets : Disconnect(s)
    \/ \E i \in intervals : IntervalFire(i)
    \/ \E k \in Draws : MayStart /\ BootTimerFire(k)
    \/ \E k \in Draws : MayStart /\ RestartTimerFire(k)

Spec == Init /\ [][Next]_vars

\* the program with a running clock
NextClock == Next \/ AdvanceClock

SpecClock == Init /\ [][NextClock]_vars

\* the first round start alone, over every draw
NextDraw == \E k \in AllDraws : MayStart /\ BootTimerFire(k)

DrawSpec == Init /\ [][NextDraw]_vars

\* the round loop with long rounds: the timers and one participant who may
\* trigger START_GAME, with the interval timer firing fairly, as setInterval
\* schedules it
NextTick ==
    \/ Connect(1)
    \/ (MayStart \/ gameState.running) /\ StartGameRequest(1, TickDraws)
    \/ \E k \in TickDraws : MayStart /\ BootTimerFire(k)
    \/ \E i \in intervals : IntervalFire(i)
    \/ \E k \in TickDraws : MayStart /\ RestartTimerFire(k)

TickSpec ==
    /\ Init
    /\ [][NextTick]_vars
    /\ WF_vars(\E i \in 1..MaxRounds : IntervalFire(i))

\* the same round loop with the timeouts firing fairly as well, as
\* setTimeout schedules them
RestartFires == \E k \in TickDraws : MayStart /\ RestartTimerFire(k)

LoopSpec ==
    /\ Init
    /\ [][NextTick]_vars
    /\ WF_vars(\E i \in 1..MaxRounds : IntervalFire(i))
    /\ WF_vars(RestartFires)

\* the timers alone, for HistoryRounds rounds
NextHistory ==
    \/ \E k \in HistoryDraws(1) : rounds < HistoryRounds /\ BootTimerFire(k)
    \/ \E i \in intervals : IntervalFire(i)
    \/ \E k \in HistoryDraws(rounds + 1) : rounds < HistoryRounds /\ RestartTimerFire(k)

HistorySpec == Init /\ [][NextHistory]_vars

\* the program with a running clock and timers that take time: a callback
\* set by setInterval or setTimeout runs at a later clock reading than the
\* one it was set at (the latest start, the latest crash, the boot)
NextTimed ==
    \/ \E s \in Sockets : Connect(s)
    \/ \E s \in Sockets : (MayStart \/ gameState.running) /\ StartGameRequest(s, Draws)
    \/ \E s \in Sockets, a \in Amounts, u \in Usernames : PlaceBet(s, a, u)
    \/ \E s \in Sockets : CashOut(s)
    \/ \E s \in Sockets : Disconnect(s)
    \/ \E i \in intervals : now > gameState.startTime /\ IntervalFire(i)
    \/ \E k \in Draws : MayStart /\ now > 0 /\ BootTimerFire(k)
    \/ \E k \in Draws : /\ MayStart
                         /\ restartTimers > 0
                         /\ now > gameState.history[1].timestamp
                         /\ RestartTimerFire(k)
    \/ AdvanceClock

TimedSpec == Init /\ [][NextTimed]_vars

\* the mock server alone
MockNext ==
    \/ \E u \in MockUsernames, k \in RefDraws : MockLogin(u, k)
    \/ MockLogout
    \/ \E a \in RedeemAmounts : MockRedeem(a)
    \/ \E m \in ModeIds, k \in Draws :
          (starts < MockRounds \/ state.game.running) /\ MockStartGame(m, k)
    \/ \E a \in MockAmounts : MockPlaceBet(a)
    \/ MockCashOut
    \/ \E i \in liveLoops : MockGameLoop(i)

MockSpec == Init /\ [][MockNext]_vars

\* either program: server.js while the mock server is as constructed, the
\* mock server while server.js is as booted
ServerIdle == bootTimer /\ \A s \in Sockets : conn[s] = "fresh"
MockIdle == returned = NoReturn /\ starts = 0

\* server.js with one participant
NextOne ==
    \/ Connect(1)
    \/ (MayStart \/ gameState.running) /\ StartGameRequest(1, Draws)
    \/ \E a \in Amounts, u \in Usernames : PlaceBet(1, a, u)
    \/ CashOut(1)
    \/ Disconnect(1)
    \/ \E i \in intervals : IntervalFire(i)
    \/ \E k \in Draws : MayStart /\ BootTimerFire(k)
    \/ \E k \in Draws : MayStart /\ RestartTimerFire(k)

NextEither ==
    \/ MockIdle /\ NextOne
    \/ ServerIdle /\ MockNext

EitherSpec == Init /\ [][NextEither]_vars

\* ================================================================= claims
\* what a handler answered, read off the event it emitted
HasBet(s) == MapHas(activeBets, s)
LiveBet(s) == MapHas(activeBets, s) /\ ~MapGet(activeBets, s).cashedOut
Phase == IF gameState.running THEN "RUNNING"
         ELSE IF gameState.crashed THEN "CRASHED" ELSE "IDLE"
PlaceBetErrors == {"Cannot place bet at this time", "You already have an active bet",
                   "Minimum bet is 10"}
CashOutErrors == {"Game not active", "No active bet to cash out"}
\* the answers of the PLACE_BET and CASH_OUT handlers; each goes to e.to
PlaceBetAnswer(e) ==
    \/ e.event = "BET_CONFIRMED"
    \/ (e.event = "ERROR" /\ e.data \in PlaceBetErrors)
CashOutAnswer(e) ==
    \/ e.event = "CASHOUT_SUCCESS"
    \/ (e.event = "ERROR" /\ e.data \in CashOutErrors)
Paid(e) == e.event = "CASHOUT_SUCCESS"

\* C1: the ledger never holds two entries of one socket, and a PLACE_BET
\* answered for a socket that already has an entry (cashed out or not) is
\* answered with an error and leaves the ledger as it was; while the round is
\* running that error is the duplicate-bet error.
C1_OneBetPerRound ==
    [][ /\ \A i, j \in 1..Len(activeBets') :
              activeBets'[i].key = activeBets'[j].key => i = j
        /\ (PlaceBetAnswer(emitted') /\ HasBet(emitted'.to)) =>
              /\ emitted'.event = "ERROR"
              /\ activeBets' = activeBets
              /\ (Phase = "RUNNING" =>
                     emitted'.data = "You already have an active bet") ]_vars

\* C1 witness: a duplicate-bet error answered to a socket whose bet is cashed out
C1_Witness ==
    /\ emitted.event = "ERROR"
    /\ emitted.data = "You already have an active bet"
    /\ HasBet(emitted.to)
    /\ MapGet(activeBets, emitted.to).cashedOut

\* C2: a CASH_OUT is paid only for a bet placed in the round that is current
\* and has not crashed; once a round has crashed it stays crashed, and its
\* ledger entries stay as the crash found them, until the next round starts.
C2_NoPayAfterCrash ==
    [][ /\ Paid(emitted') =>
              /\ Phase = "RUNNING"
              /\ ~gameState.crashed
              /\ HasBet(emitted'.to)
              /\ placedIn[emitted'.to] = rounds
              /\ rounds' = rounds
        /\ (gameState.crashed /\ rounds' = rounds) =>
              /\ gameState'.crashed /\ ~gameState'.running
              /\ \A i \in 1..Len(activeBets') :
                    \E j \in 1..Len(activeBets) : activeBets'[i] = activeBets[j] ]_vars

\* C2 witness: a CASH_OUT refused after the crash, for a live bet of that round
C2_Witness ==
    /\ gameState.crashed
    /\ emitted.event = "ERROR"
    /\ emitted.data = "Game not active"
    /\ LiveBet(emitted.to)
    /\ settled[emitted.to] = 1

\* C3 (as claimed): a bet that is not cashed out, of a participant who stays
\* connected, leaves the ledger only after exactly one GAME_CRASHED result
\* named it, and no bet is named by two.
C3_SettledExactlyOnce ==
    [][ /\ \A s \in Sockets : settled'[s] <= 1
        /\ \A s \in Sockets :
              (/\ conn[s] = "connected" /\ conn'[s] = "connected"
               /\ LiveBet(s)
               /\ ~MapHas(activeBets', s)) => settled[s] = 1 ]_vars

\* C4 (as claimed): startGame() never executes while the phase is RUNNING.
C4_StartOnlyWhenNotRunning ==
    [][ rounds' # rounds => Phase \in {"IDLE", "CRASHED"} ]_vars

\* C5: a CASHOUT_SUCCESS carries winAmount = floor(S * M) and
\* profit = winAmount - S for the stake S of the bet and the round's current
\* multiplier M, reports that same M, and the ledger records that profit.
C5_CashOutAmounts ==
    emitted.event = "CASHOUT_SUCCESS" =>
        LET bet == MapGet(activeBets, emitted.to)
            d == emitted.data
        IN  /\ d.multiplier = gameState.multiplier
            /\ d.winAmount * Scale <= bet.amount * d.multiplier
            /\ bet.amount * d.multiplier < (d.winAmount + 1) * Scale
            /\ d.profit = d.winAmount - bet.amount
            /\ bet.cashedOut /\ bet.profit = d.profit

\* C5 witness: a cash-out above 1.00x whose product S * M is not whole
C5_Witness ==
    /\ emitted.event = "CASHOUT_SUCCESS"
    /\ emitted.data.profit > 0
    /\ (MapGet(activeBets, emitted.to).amount * emitted.data.multiplier) % Scale # 0

\* C6: a CASH_OUT answered while the phase is RUNNING, for a socket with a
\* bet that is not cashed out, is answered with success, realizes the
\* multiplier the round has at that step, and leaves the round as it is.
C6_CashOutReadsCurrentMultiplier ==
    [][ (CashOutAnswer(emitted') /\ Phase = "RUNNING" /\ ~gameState.crashed
            /\ LiveBet(emitted'.to)) =>
           /\ Paid(emitted')
           /\ emitted'.data.multiplier = gameState.multiplier
           /\ gameState' = gameState
           /\ MapGet(activeBets', emitted'.to).cashedOut ]_vars

\* C6 witness: a cash-out realized at the value the second tick left
C6_Witness ==
    /\ emitted.event = "CASHOUT_SUCCESS"
    /\ emitted.data.multiplier = Grow(Grow(Scale))
    /\ gameState.running

\* C7 (as claimed): at most one interval timer is live, and none after a crash.
C7_SingleTickTimer ==
    /\ Cardinality(intervals) <= 1
    /\ (Phase = "CRASHED" => intervals = {})

\* C8 (as claimed): no step from RUNNING to RUNNING lowers the multiplier.
C8_MultiplierMonotone ==
    [][ (gameState.running /\ gameState'.running) =>
           gameState'.multiplier >= gameState.multiplier ]_vars

\* C9: under fair firing of the interval timer every running round crashes,
\* and a running round's multiplier never passes the cap, so the number of
\* growth steps of a round is bounded.
C9_RoundTerminates ==
    /\ [](gameState.running => gameState.multiplier <= crashCap * Scale)
    /\ (gameState.running ~> gameState.crashed)

\* C9 witness: a round whose crash target is the cap has crashed
C9_Witness ==
    /\ gameState.crashed
    /\ gameState.crashPoint = crashCap * Scale
    /\ gameState.multiplier >= gameState.crashPoint

\* C10: the crash point of every started round is at least 1.00x and at
\* most the cap.
C10_CrashPointRange ==
    rounds > 0 =>
        /\ gameState.crashPoint >= Scale
        /\ gameState.crashPoint <= crashCap * Scale

\* C10 witness: a draw whose raw crash point is beyond the cap
C10_Witness ==
    /\ rounds > 0
    /\ gameState.crashPoint = crashCap * Scale

\* C11 (as claimed): whenever the phase is CRASHED the multiplier of the round
\* equals its crash point, and a GAME_CRASHED event carries that crash point.
C11_CrashedAtTarget ==
    Phase = "CRASHED" =>
        /\ gameState.multiplier = gameState.crashPoint
        /\ (emitted.event = "GAME_CRASHED" =>
               emitted.data.crashPoint = gameState.crashPoint)

\* the entries of a GAME_CRASHED result that name socket s
ResultsOf(e, s) == {i \in 1..Len(e.data.results) : e.data.results[i].socketId = s}

\* C12 (as claimed): the GAME_CRASHED of a round names, as lost with
\* profit = -stake, every bet that a disconnect of its participant found not
\* cashed out in that round, and no such bet is paid.
C12_ForfeitSettledAtCrash ==
    [][ /\ emitted'.event = "GAME_CRASHED" =>
              \A s \in Sockets : forfeited[s] > 0 =>
                  \E i \in ResultsOf(emitted', s) :
                      /\ emitted'.data.results[i].result = "lost"
                      /\ emitted'.data.results[i].profit = 0 - forfeited[s]
        /\ Paid(emitted') => forfeited[emitted'.to] = 0 ]_vars

\* C12 (amended): a disconnect removes the participant's bet from the ledger
\* at once; no later GAME_CRASHED names a bet of a participant who has
\* disconnected, and nothing is paid to one.
C12_ForfeitDropped ==
    [][ /\ conn' # conn =>
              \A s \in Sockets : conn'[s] = "closed" => ~MapHas(activeBets', s)
        /\ emitted'.event = "GAME_CRASHED" =>
              \A i \in 1..Len(emitted'.data.results) :
                  /\ conn[emitted'.data.results[i].socketId] = "connected"
                  /\ forfeited[emitted'.data.results[i].socketId] = 0
        /\ Paid(emitted') =>
              /\ conn[emitted'.to] = "connected"
              /\ forfeited[emitted'.to] = 0 ]_vars

\* C12 witness: a crash of a round in which a participant disconnected with a
\* bet that was not cashed out, while another bet was settled
C12_Witness ==
    /\ emitted.event = "GAME_CRASHED"
    /\ \E s \in Sockets : forfeited[s] > 0
    /\ Len(emitted.data.results) > 0

\* C13: a PLACE_BET answered while the phase is IDLE or CRASHED is answered
\* with the phase error and leaves the ledger as it was; a bet is confirmed,
\* and the ledger grows, only while the phase is RUNNING.
C13_BetOnlyWhileRunning ==
    [][ /\ (PlaceBetAnswer(emitted') /\ Phase # "RUNNING") =>
              /\ emitted'.event = "ERROR"
              /\ emitted'.data = "Cannot place bet at this time"
              /\ activeBets' = activeBets
        /\ emitted'.event = "BET_CONFIRMED" => Phase = "RUNNING"
        /\ Len(activeBets') > Len(activeBets) => Phase = "RUNNING" ]_vars

\* C13 witness: a PLACE_BET refused between a crash and the next start
C13_Witness ==
    /\ Phase = "CRASHED"
    /\ emitted.event = "ERROR"
    /\ emitted.data = "Cannot place bet at this time"

\* the errors the mock server's placeBet and cashOut return
MockBetErrors == {"Login required", "Insufficient funds", "Min bet 10",
                  "Game not running", "No active bet"}

\* C14: a PLACE_BET or CASH_OUT of server.js answered with an error leaves
\* the round, the timers and the ledger as they were, and a placeBet or
\* cashOut of the mock server that returns an error leaves its whole state
\* (user and balance, game, bets) and its timers as they were.
C14_ErrorsChangeNothing ==
    [][ /\ (emitted'.event = "ERROR"
             /\ emitted'.data \in PlaceBetErrors \cup CashOutErrors) =>
              /\ gameState' = gameState
              /\ activeBets' = activeBets
              /\ UNCHANGED <<gameLoop, intervals, bootTimer, restartTimers, conn>>
        /\ (returned'.kind = "error" /\ returned'.text \in MockBetErrors) =>
              /\ state' = state
              /\ UNCHANGED <<loopInterval, liveLoops>> ]_vars

\* C14 witness: the mock server refuses a cashOut of a bet that is already
\* cashed out, in a running game, the balance holding the earlier payment
C14_Witness ==
    /\ returned = Err("No active bet")
    /\ state.game.running
    /\ MapHas(state.bets, state.game.id)
    /\ state.user # NoUser
    /\ state.user[1].balance > startBalance

\* C15: the history never holds more than 50 entries; a crash puts the
\* crash point of the round that crashed first, keeps the earlier entries
\* in their order behind it and, when that makes 51, drops the last one;
\* no other step changes the history.
C15_HistoryCapped ==
    [][ LET h == gameState.history
            hh == gameState'.history
        IN  /\ Len(hh) <= historyCap
            /\ IF gameState'.crashed /\ ~gameState.crashed
               THEN /\ hh[1].crashPoint = gameState'.crashPoint
                    /\ Len(hh) = Min(Len(h) + 1, historyCap)
                    /\ \A i \in 2..Len(hh) : hh[i] = h[i - 1]
               ELSE hh = h ]_vars

\* C15 witness: the 51st crash has happened and the history holds 50 entries
C15_Witness ==
    /\ gameState.crashed
    /\ rounds = historyCap + 1
    /\ Len(gameState.history) = historyCap

\* C16: a TICK is emitted only by a step from RUNNING to RUNNING, with the
\* multiplier that step set, below the crash point; the step that crashes
\* the round emits GAME_CRASHED and no TICK, and no step taken while the
\* round is not running emits a TICK.
C16_TickOnlyWhileRunning ==
    [][ /\ emitted'.event = "TICK" =>
              /\ gameState.running /\ gameState'.running
              /\ ~gameState'.crashed
              /\ emitted'.data.multiplier = gameState'.multiplier
              /\ gameState'.multiplier < gameState'.crashPoint
        /\ (gameState.running /\ gameState'.crashed) =>
              emitted'.event = "GAME_CRASHED" ]_vars

\* C16 witness: the crashing tick of a round that had emitted TICKs: the
\* last event is GAME_CRASHED and the multiplier is past the third tick
C16_Witness ==
    /\ emitted.event = "GAME_CRASHED"
    /\ ~gameState.running
    /\ gameState.multiplier = Grow(Grow(Grow(Scale)))

\* C18: while the phase is CRASHED a restart timer is pending, and under
\* fair firing of the timers every crash is followed by a running round
\* (for as many rounds as are explored).
C18_LoopRepeats ==
    /\ [](gameState.crashed => restartTimers > 0)
    /\ ((gameState.crashed /\ MayStart) ~> gameState.running)

\* C18 witness: a round is running after a crash, started by the restart
\* timer of that crash
C18_Witness ==
    /\ gameState.running
    /\ Len(gameState.history) > 0
    /\ ~bootTimer
    /\ restartTimers = 0
    /\ rounds = 2

RECURSIVE ToNumber(_)
\* the number a string of decimal digits denotes
ToNumber(digits) ==
    IF digits = <<>> THEN 0
    ELSE 10 * ToNumber(SubSeq(digits, 1, Len(digits) - 1)) + digits[Len(digits)]

\* C19 (as claimed): every round start after the first assigns a gameId
\* greater than the gameId of the round before it.
C19_RoundIdIncreases ==
    [][ (rounds' # rounds /\ rounds > 0) =>
           ToNumber(gameState'.gameId) > ToNumber(gameState.gameId) ]_vars

\* C20 (as claimed): while the mock server holds a bet for the current game,
\* no placeBet succeeds, and a bet of the current game that is cashed out
\* stays cashed out.
C20_NoSecondBet ==
    [][ (state.game.id # <<>> /\ MapHas(state.bets, state.game.id)) =>
           /\ placed' = placed
           /\ (MapGet(state.bets, state.game.id).cashedOut
                  /\ state'.game.id = state.game.id) =>
                 MapGet(state'.bets, state.game.id).cashedOut ]_vars

\* C21 (as claimed): the mock server's placeBet succeeds, creating a bet and
\* debiting the balance, only in a step taken while the game is running.
C21_MockBetOnlyWhileRunning ==
    [][ placed' # placed => state.game.running ]_vars

\* C22: the results of a GAME_CRASHED have one entry per ledger entry, in
\* the ledger's order and naming its socket and amount: lost with
\* profit = -amount for a bet not cashed out, won with the bet's recorded
\* profit for one that is; and a ledger entry that is cashed out is never
\* changed while it stays in the ledger.
C22_ResultsMatchLedger ==
    [][ /\ emitted'.event = "GAME_CRASHED" =>
              LET res == emitted'.data.results
              IN  /\ Len(res) = Len(activeBets)
                  /\ \A i \in 1..Len(res) :
                        LET bet == activeBets[i].value
                        IN  /\ res[i].socketId = activeBets[i].key
                            /\ res[i].amount = bet.amount
                            /\ res[i].result = IF bet.cashedOut THEN "won" ELSE "lost"
                            /\ res[i].profit = IF bet.cashedOut THEN bet.profit
                                               ELSE 0 - bet.amount
        /\ activeBets' # activeBets =>
              \A i \in 1..Len(activeBets) :
                  (activeBets[i].value.cashedOut
                     /\ MapHas(activeBets', activeBets[i].key)) =>
                       MapGet(activeBets', activeBets[i].key) = activeBets[i].value ]_vars

\* C22 witness: a crash that settles one bet as won, with the profit of its
\* cash-out after a tick, and another as lost
C22_Witness ==
    /\ emitted.event = "GAME_CRASHED"
    /\ \E i, j \in 1..Len(emitted.data.results) :
          /\ emitted.data.results[i].result = "won"
          /\ emitted.data.results[i].profit > 0
          /\ emitted.data.results[j].result = "lost"
          /\ emitted.data.results[j].profit = 0 - emitted.data.results[j].amount

\* C23: a step that answers a connection, a PLACE_BET or a CASH_OUT, and a
\* step that connects or disconnects a socket, leaves gameState as it was;
\* gameState changes only in a step that starts a round or in a tick
\* (TICK or GAME_CRASHED), and every step that starts no round leaves the
\* gameId, the crash point and the start time as they were.
C23_RoundFrame ==
    [][ /\ (emitted'.event \in {"INITIAL_STATE", "BET_CONFIRMED",
                                "CASHOUT_SUCCESS", "ERROR"}
             \/ conn' # conn) => gameState' = gameState
        /\ gameState' # gameState =>
              \/ rounds' = rounds + 1 /\ emitted'.event = "GAME_START"
              \/ rounds' = rounds /\ emitted'.event \in {"TICK", "GAME_CRASHED"}
        /\ rounds' = rounds =>
              /\ gameState'.gameId = gameState.gameId
              /\ gameState'.crashPoint = gameState.crashPoint
              /\ gameState'.startTime = gameState.startTime ]_vars

\* C23 witness: a bet confirmed in a round that has ticked and not crashed,
\* the multiplier still the one the ticks left, below the crash point
C23_Witness ==
    /\ emitted.event = "BET_CONFIRMED"
    /\ gameState.running
    /\ gameState.multiplier = Grow(Grow(Scale))
    /\ gameState.multiplier < gameState.crashPoint

\* C24: while a round is running its multiplier is at most its crash point,
\* and below it once a tick has raised it above 1.00x; so the multiplier a
\* CASHOUT_SUCCESS reports is at most the crash point of the round, and
\* below it once a tick has been applied.
C24_CashOutBelowCrashPoint ==
    /\ gameState.running =>
          /\ gameState.multiplier <= gameState.crashPoint
          /\ (gameState.multiplier > Scale =>
                 gameState.multiplier < gameState.crashPoint)
    /\ emitted.event = "CASHOUT_SUCCESS" =>
          /\ gameState.running
          /\ emitted.data.multiplier <= gameState.crashPoint
          /\ (emitted.data.multiplier > Scale =>
                 emitted.data.multiplier < gameState.crashPoint)

\* C24 witness: a cash-out at the value of the last tick before the crash:
\* one more tick would pass the crash point
C24_Witness ==
    /\ emitted.event = "CASHOUT_SUCCESS"
    /\ emitted.data.multiplier > Scale
    /\ Grow(emitted.data.multiplier) >= gameState.crashPoint

\* C25: whenever the mock server has a user, the user's balance is not
\* negative.
C25_BalanceNotNegative ==
    state.user # NoUser => state.user[1].balance >= 0

\* C25 witness: bets and redeems have brought the balance to 0, and a
\* further debit has been refused
C25_Witness ==
    /\ state.user # NoUser
    /\ state.user[1].balance = 0
    /\ placed > 0
    /\ returned = Err("Insufficient funds")

====
